---- MODULE Spec2Model ----
(***************************************************************************)
(* Model of the legislative data bridge (src/server.js and its two         *)
(* variants): an HTTP front end over one PostgreSQL table,                 *)
(*   legislative_data(id TEXT PRIMARY KEY, store_name, content, updated_at)*)
(* Every handler runs synchronously up to its `await pool.query(...)`;     *)
(* requests are handled concurrently, so any number of them may be         *)
(* suspended on their query.  The backend executes one statement           *)
(* atomically (or rejects it); the handler's continuation, which only      *)
(* sends the response of its own request, is taken in the same step as     *)
(* the settlement of the query it awaited.                                 *)
(* Spec is the server from its startup on, with concurrent requests and a  *)
(* backend that may go down; SpecSeq one client sending requests in turn;  *)
(* SpecImp a backup and its replay; SpecPool the variants of the server    *)
(* with more requests in flight than the pool has connections.             *)
(***************************************************************************)
EXTENDS Integers, Sequences, FiniteSets, TLC

\* ------------------------------------------------------------------ bounds
MaxReqs == 3      \* requests received over a run
MaxSeq == 4       \* requests of a client that sends them one after another
MaxClock == 3     \* largest value of the backend's NOW()
MaxWrites == 1    \* writes of other clients during a backup and restore
MaxImports == 2   \* times a client replays a snapshot
PoolMax == 2      \* connections of the pool (max: 10 in server.js, the
                  \* library's default in the other variants), scaled down

\* ------------------------------------------------------- request parameters
Stores == {"A", "B"}                 \* values of req.params.store
\* names every JavaScript object inherits from Object.prototype (one of them)
ProtoKeys == {"constructor"}
SeqStores == Stores \cup ProtoKeys   \* the stores one client in turn uses
Ids == {"i1", "i2"}                  \* non-empty document ids
SeqIds == Ids \cup {"i3"}            \* the ids one client in turn uses
Vals == {1, 2}                       \* the rest of a document's content

\* The source holds the server in three variants.  Their read, upsert and
\* delete handlers are the same text; server.js and part_001 export with the
\* same grouping; part_000 and part_001 share their health handler and their
\* pool options (part_000 has no export route).
Variants == {"server.js", "part_001"}

\* req.body of a POST: a JSON object whose id is a non-empty string, or the
\* empty string, or that has no id field
Contents(ids) ==
    [id : ids, v : Vals] \cup {[id |-> "", v |-> 1], [v |-> 1]}

\* a row of legislative_data
Row(i, c, s, t) ==
    [id |-> i, content |-> c, store_name |-> s, updated_at |-> t]

\* A request.
\* id: the key its statement targets (content.id of a POST, req.params.id of
\*     a DELETE), "" when it has none
\* pc: "wait"   suspended on await pool.query(...), which waits for a
\*              connection of the pool
\*     "query"  suspended on await pool.query(...), whose statement is at
\*              the backend
\*     "done"   the response has been sent
\* ok: whether the handler's try block ran to its end (TRUE) or its catch
\*     block answered (FALSE)
\* out: the body of a 200 response to a read (the contents) or an export
\*      (the snapshot)
\* status: the HTTP status sent, 0 while there is none
\* ord: for an upsert or a delete, the position of its statement among the
\*      writes the backend has committed; 0 otherwise
NewReq(kind, store, i, c) ==
    [id |-> i, content |-> c, kind |-> kind, store |-> store,
     pc |-> "query", ok |-> FALSE, out |-> <<>>, status |-> 0, ord |-> 0]

VARIABLES
    rows,         \* the rows of legislative_data (a set of records)
    tableExists,  \* whether legislative_data has been created
    dbUp,         \* whether the backend accepts connections
    clock,        \* the backend's NOW()
    boot,         \* position of the startup callback running initDb
    reqs,         \* the requests received so far, in order of arrival
    variant,      \* which of the source's variants of the server is running
    fresh         \* the rows of a second, initially empty backend into which
                  \* a client restores a snapshot

vars == <<rows, tableExists, dbUp, clock, boot, reqs, variant, fresh>>

\* Every record constructor of this module lists its fields in one order
\* (id, content, then the rest as in Row and NewReq), which is the order TLC
\* keeps them in.

\* ---------------------------------------------------------------- helpers
\* the column id of the rows
RowIds(rs) == {row.id : row \in rs}

RowsWithId(rs, i) == {row \in rs : row.id = i}

RowsOfStore(rs, s) == {row \in rs : row.store_name = s}

\* every order in which the backend may return the rows of a set
Orders(rs) ==
    {f \in [1..Cardinality(rs) -> rs] :
        \A a, b \in 1..Cardinality(rs) : a # b => f[a] # f[b]}

\* The id check, were it to test only for the presence of the field.
MissingIdEmptyAllowed(content) ==
    "id" \notin DOMAIN content

\* `!content.id`: the id field is missing or the empty string
MissingId(content) ==
    IF "id" \in DOMAIN content THEN content.id = "" ELSE TRUE

\* The upsert statement, and five slips of it: a plain INSERT without the
\* primary key, a conflict clause that forgets content, one that forgets
\* updated_at, ON CONFLICT DO NOTHING, and a write that first clears the
\* store it writes to.
UpsertNoConflict(rs, i, store, content, now) ==
    rs \cup {Row(i, content, store, now)}

UpsertKeepContent(rs, i, store, content, now) ==
    IF RowsWithId(rs, i) # {}
    THEN {IF row.id = i THEN [row EXCEPT !.updated_at = now] ELSE row :
            row \in rs}
    ELSE rs \cup {Row(i, content, store, now)}

UpsertKeepTime(rs, i, store, content, now) ==
    IF RowsWithId(rs, i) # {}
    THEN {IF row.id = i THEN [row EXCEPT !.content = content] ELSE row :
            row \in rs}
    ELSE rs \cup {Row(i, content, store, now)}

UpsertDoNothing(rs, i, store, content, now) ==
    IF RowsWithId(rs, i) # {}
    THEN rs
    ELSE rs \cup {Row(i, content, store, now)}

UpsertClearStore(rs, i, store, content, now) ==
    {row \in rs : row.store_name # store /\ row.id # i}
        \cup {Row(i, content, store, now)}

\* INSERT ... ON CONFLICT (id) DO UPDATE SET content = $3, updated_at = NOW()
UpsertRows(rs, i, store, content, now) ==
    IF RowsWithId(rs, i) # {}
    THEN {IF row.id = i
          THEN [row EXCEPT !.content = content, !.updated_at = now]
          ELSE row : row \in rs}
    ELSE rs \cup {Row(i, content, store, now)}

\* The delete statement, and two slips of it: WHERE id = $1 AND store_name =
\* $2, and WHERE store_name = $1 (the wrong path parameter).
DeleteIdInStore(rs, store, i) ==
    {row \in rs : ~(row.id = i /\ row.store_name = store)}

DeleteByStore(rs, store, i) ==
    {row \in rs : row.store_name # store}

\* DELETE FROM legislative_data WHERE id = $1
DeleteRows(rs, store, i) ==
    {row \in rs : row.id # i}

\* The read without its WHERE clause.
ReadResultsAllStores(rs, s) ==
    {[k \in DOMAIN f |-> f[k].content] :
        f \in {g \in Orders(rs) :
                 \A a, b \in DOMAIN g :
                     a < b => g[a].updated_at >= g[b].updated_at}}

\* SELECT content ... WHERE store_name = $1 ORDER BY updated_at DESC, mapped
\* to the content column: every answer the backend may give (rows of equal
\* updated_at come in any order)
ReadResults(rs, s) ==
    {[k \in DOMAIN f |-> f[k].content] :
        f \in {g \in Orders(RowsOfStore(rs, s)) :
                 \A a, b \in DOMAIN g :
                     a < b => g[a].updated_at >= g[b].updated_at}}

\* The grouping of the export handler over result.rows (a sequence of rows).
\* exportData is a plain object: `!exportData[key]` is false for a key it owns
\* (an array) and also for a key it inherits from Object.prototype, for which
\* no array is created and `.push` is then not a function: the TypeError
\* leaves the loop and is caught by the handler.
\* The result is <<"ok", exportData>> or <<"TypeError", <<>>>>.
RECURSIVE GroupRows(_)
GroupRows(rowSeq) ==
    IF rowSeq = <<>> THEN <<"ok", <<>>>>
    ELSE LET n == Len(rowSeq)
             prev == GroupRows(SubSeq(rowSeq, 1, n - 1))
             acc == prev[2]
             key == rowSeq[n].store_name
         IN  IF prev[1] # "ok" THEN prev
             ELSE IF key \in DOMAIN acc
             THEN <<"ok", [acc EXCEPT ![key] = Append(@, rowSeq[n].content)]>>
             ELSE IF key \in ProtoKeys
             THEN <<"TypeError", <<>>>>
             ELSE <<"ok", [s \in DOMAIN acc \cup {key} |->
                              IF s = key THEN <<rowSeq[n].content>>
                              ELSE acc[s]]>>

\* The export, were its read to return only some of the rows (a read that is
\* cut short, or that pages through the table while it changes).
ExportResultsPartial(rs) ==
    {GroupRows(f) : f \in UNION {Orders(sub) : sub \in SUBSET rs}}

\* SELECT store_name, content FROM legislative_data, grouped: every outcome
\* of the handler's try block (the backend returns the rows in any order)
ExportResults(rs) ==
    {GroupRows(f) : f \in Orders(rs)}

\* The body of a successful export: res.json({version, timestamp, data}).
\* The timestamp is new Date().toISOString(), the server's wall clock, which
\* nothing else reads: it is kept as one opaque string.
Snapshot(v, exportData) ==
    [version |-> IF v = "server.js" THEN "1.0-CLOUD" ELSE "2.0",
     timestamp |-> "ISO-8601",
     data |-> exportData]

\* ---------------------------------------------------------------- requests
\* number of writes the backend has committed
Committed == Cardinality({k \in DOMAIN reqs : reqs[k].ord > 0})

Init ==
    /\ rows = {}
    /\ tableExists \in BOOLEAN
    /\ dbUp \in BOOLEAN
    /\ clock = 0
    /\ boot = "initDb"
    /\ reqs = <<>>
    /\ variant = "server.js"
    /\ fresh = {}

\* ------------------------------------------------------------ environment
BackendDown ==
    /\ dbUp
    /\ dbUp' = FALSE
    /\ UNCHANGED <<rows, tableExists, clock, boot, reqs, variant, fresh>>

BackendUp ==
    /\ ~dbUp
    /\ dbUp' = TRUE
    /\ UNCHANGED <<rows, tableExists, clock, boot, reqs, variant, fresh>>

\* ---------------------------------------------------------------- startup
\* app.listen callback: await initDb(); CREATE TABLE IF NOT EXISTS
InitDbOk ==
    /\ boot = "initDb"
    /\ dbUp
    /\ tableExists' = TRUE
    /\ boot' = "online"
    /\ UNCHANGED <<rows, dbUp, clock, reqs, variant, fresh>>

InitDbFail ==
    /\ boot = "initDb"
    /\ ~dbUp
    /\ boot' = "error"
    /\ UNCHANGED <<rows, tableExists, dbUp, clock, reqs, variant, fresh>>

\* ---------------------------------------------------- handlers, first part
\* a request arrives and its handler runs up to the await (or to its return)
Receive(req, max) ==
    /\ Len(reqs) < max
    /\ reqs' = Append(reqs, req)
    /\ UNCHANGED <<rows, tableExists, dbUp, clock, boot, variant, fresh>>

\* POST /api/:store with `!content.id`: 400 and return, no query is issued
Rejected(s, c) ==
    [NewReq("post", s, "", c) EXCEPT !.pc = "done", !.status = 400]

\* GET /api/health: server.js awaits pool.query('SELECT 1'); the handler of
\* part_000 and part_001 answers {status: 'ok'} without a query
HealthReq(v) ==
    IF v = "server.js" THEN NewReq("health", "", "", <<>>)
    ELSE [NewReq("health", "", "", <<>>) EXCEPT
             !.pc = "done", !.ok = TRUE, !.status = 200]

GetHealth == Receive(HealthReq(variant), MaxReqs)

\* GET /api/system/export
GetExport == Receive(NewReq("export", "", "", <<>>), MaxReqs)

\* GET /api/:store
GetStore == \E s \in Stores : Receive(NewReq("read", s, "", <<>>), MaxReqs)

PostStoreInvalid ==
    \E s \in Stores, c \in Contents(Ids) :
        /\ MissingId(c)
        /\ Receive(Rejected(s, c), MaxReqs)

\* POST /api/:store: pool.query(upsert, [content.id, store, content])
PostStore ==
    \E s \in Stores, c \in Contents(Ids) :
        /\ ~MissingId(c)
        /\ Receive(NewReq("post", s, c.id, c), MaxReqs)

\* DELETE /api/:store/:id
DeleteDoc ==
    \E s \in Stores, i \in Ids :
        Receive(NewReq("delete", s, i, <<>>), MaxReqs)

\* ------------------------------------- the backend and the handlers' second part
\* The answers, were the catch blocks to answer like the try blocks.
StatusAlwaysOk(kind, ok) ==
    200

\* the status the continuation (ok) or the catch block of a handler sends
StatusOf(kind, ok) ==
    IF ok THEN 200
    ELSE IF kind = "health" THEN 503 ELSE 500

\* the awaited query of req settles and the rest of its handler runs, to the
\* end of the try block (ok) or into the catch block; req is the request at
\* position k, or a request that arrives as the k-th
Settle(k, req, ok, out) ==
    LET r == [req EXCEPT
                 !.pc = "done", !.ok = ok, !.out = out,
                 !.status = StatusOf(req.kind, ok),
                 !.ord = IF ok /\ req.kind \in {"post", "delete"}
                         THEN Committed + 1 ELSE 0]
    IN  reqs' = IF k \in DOMAIN reqs THEN [reqs EXCEPT ![k] = r]
                ELSE Append(reqs, r)

\* SELECT 1
ExecHealth(k, req) ==
    /\ req.kind = "health"
    /\ Settle(k, req, TRUE, <<>>)
    /\ UNCHANGED <<rows, tableExists, dbUp, clock, boot, variant, fresh>>

ExecExport(k, req) ==
    /\ req.kind = "export"
    /\ tableExists
    /\ \E g \in ExportResults(rows) :
           Settle(k, req, g[1] = "ok",
                  IF g[1] = "ok" THEN Snapshot(variant, g[2]) ELSE <<>>)
    /\ UNCHANGED <<rows, tableExists, dbUp, clock, boot, variant, fresh>>

ExecRead(k, req) ==
    /\ req.kind = "read"
    /\ tableExists
    /\ \E out \in ReadResults(rows, req.store) : Settle(k, req, TRUE, out)
    /\ UNCHANGED <<rows, tableExists, dbUp, clock, boot, variant, fresh>>

\* NOW() is the backend's clock, which never runs backwards
ExecUpsert(k, req) ==
    /\ req.kind = "post"
    /\ tableExists
    /\ \E now \in clock..(IF clock < MaxClock THEN clock + 1 ELSE clock) :
        /\ clock' = now
        /\ rows' = UpsertRows(rows, req.id, req.store, req.content, now)
    /\ Settle(k, req, TRUE, <<>>)
    /\ UNCHANGED <<tableExists, dbUp, boot, variant, fresh>>

ExecDelete(k, req) ==
    /\ req.kind = "delete"
    /\ tableExists
    /\ rows' = DeleteRows(rows, req.store, req.id)
    /\ Settle(k, req, TRUE, <<>>)
    /\ UNCHANGED <<tableExists, dbUp, clock, boot, variant, fresh>>

\* the backend executes the statement of a suspended request
DbExec ==
    \E k \in DOMAIN reqs :
        /\ reqs[k].pc = "query"
        /\ dbUp
        /\ \/ ExecHealth(k, reqs[k])
           \/ ExecExport(k, reqs[k])
           \/ ExecRead(k, reqs[k])
           \/ ExecUpsert(k, reqs[k])
           \/ ExecDelete(k, reqs[k])

\* pool.query rejects: no connection, or the relation does not exist
DbFail ==
    \E k \in DOMAIN reqs :
        /\ reqs[k].pc = "query"
        /\ \/ ~dbUp
           \/ ~tableExists /\ reqs[k].kind # "health"
        /\ Settle(k, reqs[k], FALSE, <<>>)
        /\ UNCHANGED <<rows, tableExists, dbUp, clock, boot, variant, fresh>>

Next ==
    \/ BackendDown
    \/ BackendUp
    \/ InitDbOk
    \/ InitDbFail
    \/ GetHealth
    \/ GetExport
    \/ GetStore
    \/ PostStoreInvalid
    \/ PostStore
    \/ DeleteDoc
    \/ DbExec
    \/ DbFail

Spec == Init /\ [][Next]_vars

\* --------------------------------------------------------- one client in turn
\* The runs of the server in which initDb has succeeded, the backend stays up
\* and a client writes, deletes, reads and exports, each request being
\* answered before the next one arrives.
InitSeq ==
    /\ rows = {}
    /\ tableExists = TRUE
    /\ dbUp = TRUE
    /\ clock = 0
    /\ boot = "online"
    /\ reqs = <<>>
    /\ variant = "server.js"
    /\ fresh = {}

Arrives == Len(reqs) + 1

SeqExport ==
    /\ Len(reqs) < MaxSeq
    /\ ExecExport(Arrives, NewReq("export", "", "", <<>>))

SeqRead ==
    /\ Len(reqs) < MaxSeq
    /\ \E s \in SeqStores : ExecRead(Arrives, NewReq("read", s, "", <<>>))

SeqPost ==
    /\ Len(reqs) < MaxSeq
    /\ \E s \in SeqStores, c \in Contents(SeqIds) :
        /\ ~MissingId(c)
        /\ ExecUpsert(Arrives, NewReq("post", s, c.id, c))

SeqDelete ==
    /\ Len(reqs) < MaxSeq
    /\ \E s \in SeqStores, i \in SeqIds :
        ExecDelete(Arrives, NewReq("delete", s, i, <<>>))

NextSeq ==
    \/ SeqExport
    \/ SeqRead
    \/ SeqPost
    \/ SeqDelete

SpecSeq == InitSeq /\ [][NextSeq]_vars

\* ------------------------------------------------------ the connection pool
\* The runs in which more requests are in flight than the pool has
\* connections.  pool.query first takes a connection of the pool: an idle
\* one, or a new one while fewer than max are open, else the request waits
\* for one to be released; it runs the statement and releases the
\* connection when the statement settles.  server.js sets
\* connectionTimeoutMillis: 10000, which rejects a request still waiting
\* after 10 s; part_000 and part_001 do not set it and the pool then waits
\* without limit.  No variant sets a statement timeout.
InitPool ==
    /\ rows = {}
    /\ tableExists = TRUE
    /\ dbUp \in BOOLEAN
    /\ clock = 0
    /\ boot = "online"
    /\ reqs = <<>>
    /\ variant \in Variants
    /\ fresh = {}

\* connections checked out of the pool
InUse == Cardinality({k \in DOMAIN reqs : reqs[k].pc = "query"})

\* the requests of the runs on the pool
PoolReqs ==
    {NewReq("export", "", "", <<>>),
     NewReq("read", "A", "", <<>>),
     NewReq("post", "A", "i1", [id |-> "i1", v |-> 1]),
     NewReq("delete", "A", "i1", <<>>)}

\* a request arrives and its handler calls pool.query
PoolArrive ==
    \E req \in PoolReqs : Receive([req EXCEPT !.pc = "wait"], MaxReqs)

PoolHealth ==
    Receive(IF HealthReq(variant).pc = "done" THEN HealthReq(variant)
            ELSE [HealthReq(variant) EXCEPT !.pc = "wait"], MaxReqs)

\* the pool has a connection for a waiting request: the statement is sent,
\* or the connection cannot be opened and pool.query rejects
PoolConnect(k) ==
    /\ k \in DOMAIN reqs
    /\ reqs[k].pc = "wait"
    /\ InUse < PoolMax
    /\ IF dbUp THEN reqs' = [reqs EXCEPT ![k].pc = "query"]
       ELSE Settle(k, reqs[k], FALSE, <<>>)
    /\ UNCHANGED <<rows, tableExists, dbUp, clock, boot, variant, fresh>>

\* connectionTimeoutMillis elapses for a waiting request: pool.query rejects
PoolTimeout(k) ==
    /\ k \in DOMAIN reqs
    /\ reqs[k].pc = "wait"
    /\ variant = "server.js"
    /\ Settle(k, reqs[k], FALSE, <<>>)
    /\ UNCHANGED <<rows, tableExists, dbUp, clock, boot, variant, fresh>>

NextPool ==
    \/ BackendDown
    \/ BackendUp
    \/ PoolArrive
    \/ PoolHealth
    \/ \E k \in 1..MaxReqs : PoolConnect(k)
    \/ \E k \in 1..MaxReqs : PoolTimeout(k)
    \/ DbExec
    \/ DbFail

SpecPool == InitPool /\ [][NextPool]_vars

\* The event loop runs every callback that is due: the pool serves a waiting
\* request when it has a connection, and the timer of the connection timeout
\* fires.  Nothing makes the backend settle a statement.
SpecPoolFair ==
    /\ SpecPool
    /\ \A k \in 1..MaxReqs : WF_vars(PoolConnect(k))
    /\ \A k \in 1..MaxReqs : WF_vars(PoolTimeout(k))

\* ------------------------------------------------------- backup and restore
\* The server has no import route: a client restores a snapshot by sending
\* POST /api/:store for every store of data and every content of that
\* store's sequence (the import contract).  The stores are taken in any
\* order, the contents of a store in the order of its sequence.
ImportOrders(exported) ==
    LET docs == {<<s, n>> : s \in DOMAIN exported, n \in 1..Cardinality(Ids)}
        have == {d \in docs : d[2] \in DOMAIN exported[d[1]]}
    IN  {f \in Orders(have) :
            \A a, b \in DOMAIN f :
                (a < b /\ f[a][1] = f[b][1]) => f[a][2] < f[b][2]}

\* the table after the POSTs of a replay, each through the POST handler:
\* a content without id is answered 400, any other is upserted
RECURSIVE ReplayRows(_, _, _, _)
ReplayRows(rs, exported, order, now) ==
    IF order = <<>> THEN rs
    ELSE LET n == Len(order)
             before == ReplayRows(rs, exported, SubSeq(order, 1, n - 1), now)
             s == order[n][1]
             c == exported[s][order[n][2]]
         IN  IF MissingId(c) THEN before
             ELSE UpsertRows(before, c.id, s, c, now)

\* what a client holds after an export: the data of the snapshot, nothing
\* to replay when the export was answered with an error
Exported(k) == IF reqs[k].status = 200 THEN reqs[k].out.data ELSE <<>>

\* the tables a server may hold when a backup starts: one row per id, the
\* content carrying the id, under any store
InitImp ==
    /\ \E present \in SUBSET Ids, f \in [Ids -> SeqStores \X Vals] :
           rows = {Row(i, [id |-> i, v |-> f[i][2]], f[i][1], 0) :
                     i \in present}
    /\ tableExists = TRUE
    /\ dbUp = TRUE
    /\ clock = 0
    /\ boot = "online"
    /\ reqs = <<>>
    /\ variant = "server.js"
    /\ fresh = {}

CountOf(kinds) == Cardinality({k \in DOMAIN reqs : reqs[k].kind \in kinds})

\* the backup: GET /api/system/export
ImpExport ==
    /\ CountOf({"export"}) = 0
    /\ ExecExport(Arrives, NewReq("export", "", "", <<>>))

\* writes of other clients after the backup
ImpPost ==
    /\ CountOf({"export"}) = 1
    /\ CountOf({"post", "delete"}) < MaxWrites
    /\ \E s \in SeqStores, c \in Contents(Ids) :
        /\ ~MissingId(c)
        /\ ExecUpsert(Arrives, NewReq("post", s, c.id, c))

ImpDelete ==
    /\ CountOf({"export"}) = 1
    /\ CountOf({"post", "delete"}) < MaxWrites
    /\ \E i \in Ids : ExecDelete(Arrives, NewReq("delete", "A", i, <<>>))

\* the client replays the snapshot it holds into the backend it came from
Import ==
    \E k \in DOMAIN reqs :
        /\ reqs[k].kind = "export"
        /\ CountOf({"import"}) < MaxImports
        /\ \E order \in ImportOrders(Exported(k)),
              now \in clock..(IF clock < MaxClock THEN clock + 1 ELSE clock) :
            /\ clock' = now
            /\ rows' = ReplayRows(rows, Exported(k), order, now)
        /\ Settle(Arrives, NewReq("import", "", "", Exported(k)), TRUE, <<>>)
        /\ UNCHANGED <<tableExists, dbUp, boot, variant, fresh>>

\* the client replays the snapshot it holds into a second backend whose
\* table is empty
Restore ==
    \E k \in DOMAIN reqs :
        /\ reqs[k].kind = "export"
        /\ CountOf({"restore"}) = 0
        /\ \E order \in ImportOrders(Exported(k)) :
               fresh' = ReplayRows({}, Exported(k), order, 0)
        /\ Settle(Arrives, NewReq("restore", "", "", Exported(k)), TRUE, <<>>)
        /\ UNCHANGED <<rows, tableExists, dbUp, clock, boot, variant>>

NextImp ==
    \/ ImpExport
    \/ ImpPost
    \/ ImpDelete
    \/ Import
    \/ Restore

SpecImp == InitImp /\ [][NextImp]_vars

\* ------------------------------------------------------------------ claims
\* k's statement is the latest committed write that targets its id
IsLastWrite(k) ==
    /\ reqs[k].ord > 0
    /\ \A j \in DOMAIN reqs : reqs[j].id = reqs[k].id => reqs[j].ord <= reqs[k].ord

\* a POST that was answered with success
Acked(k) == reqs[k].kind = "post" /\ reqs[k].status = 200

\* in this step the backend executes the statement of request k
Executes(k) == reqs[k].pc = "query" /\ reqs'[k].pc = "done" /\ reqs'[k].ok

\* a row without its updated_at
Strip(row) ==
    [id |-> row.id, content |-> row.content, store_name |-> row.store_name]

\* C1: a successful upsert of id i into store A directly followed by a
\* successful upsert of id i into another store B leaves exactly one row with
\* id i, and that row's store_name is B.
C1_StoreReassigned ==
    \A a, b \in DOMAIN reqs :
        ( /\ Acked(a) /\ Acked(b)
          /\ reqs[a].id = reqs[b].id
          /\ reqs[a].store # reqs[b].store
          /\ reqs[b].ord = reqs[a].ord + 1
          /\ IsLastWrite(b) )
        => /\ Cardinality(RowsWithId(rows, reqs[b].id)) = 1
           /\ \A row \in RowsWithId(rows, reqs[b].id) :
                  row.store_name = reqs[b].store

\* C2: no two rows share an id: an id whose latest committed write is an
\* upsert has exactly one row, every other id has none.
C2_OneRowPerId ==
    \A i \in RowIds(rows) \cup Ids :
        Cardinality(RowsWithId(rows, i)) =
            IF \E k \in DOMAIN reqs :
                   reqs[k].kind = "post" /\ reqs[k].id = i /\ IsLastWrite(k)
            THEN 1 ELSE 0

\* an id was written, deleted and written again, and has its one row
C2_Witness ==
    \E a, c, b \in DOMAIN reqs :
        /\ Acked(a) /\ Acked(b) /\ reqs[c].kind = "delete"
        /\ reqs[a].id = reqs[b].id /\ reqs[c].id = reqs[b].id
        /\ 0 < reqs[a].ord /\ reqs[a].ord < reqs[c].ord
        /\ reqs[c].ord < reqs[b].ord
        /\ Cardinality(RowsWithId(rows, reqs[b].id)) = 1

\* C3: when the backend executes upsert(store, d) and the previous committed
\* write was the same upsert(store, d), the table then has exactly one row
\* with d's id, its content is d, and the table differs from the one before
\* this second call at most in that row's updated_at.
C3_UpsertIdempotent ==
    [][\A j, k \in DOMAIN reqs :
          ( /\ reqs[k].kind = "post" /\ Executes(k)
            /\ Acked(j) /\ reqs[j].ord = Committed
            /\ reqs[j].store = reqs[k].store
            /\ reqs[j].content = reqs[k].content )
          => /\ Cardinality(RowsWithId(rows', reqs[k].id)) = 1
             /\ \A row \in RowsWithId(rows', reqs[k].id) :
                    row.content = reqs[k].content
             /\ {Strip(row) : row \in rows'} = {Strip(row) : row \in rows}
             /\ \A row \in rows \cup rows' :
                    row.id # reqs[k].id => row \in rows /\ row \in rows'
      ]_vars

\* the same upsert was committed twice in a row over a row of other content
C3_Witness ==
    \E h, j, k \in DOMAIN reqs :
        /\ Acked(h) /\ Acked(j) /\ Acked(k)
        /\ reqs[h].ord > 0
        /\ reqs[j].ord = reqs[h].ord + 1
        /\ reqs[k].ord = reqs[j].ord + 1
        /\ reqs[h].id = reqs[j].id
        /\ reqs[h].content # reqs[j].content
        /\ reqs[j].store = reqs[k].store
        /\ reqs[j].content = reqs[k].content
        /\ \E row \in rows : row.content = reqs[k].content
\* `!content.id` as the claims state it
NoUsableId(c) == IF "id" \in DOMAIN c THEN c.id = "" ELSE TRUE

\* C4: a POST whose content has no id field, or an empty id, is answered with
\* 400 by the step that receives it, without ever being suspended on a query,
\* and that step leaves the table as it was.
C4_MissingIdRejected ==
    [][\A k \in DOMAIN reqs' :
          (reqs'[k].kind = "post" /\ NoUsableId(reqs'[k].content))
          => /\ reqs'[k].pc = "done"
             /\ reqs'[k].status = 400
             /\ ~reqs'[k].ok
             /\ reqs'[k].ord = 0
             /\ k \notin DOMAIN reqs => rows' = rows /\ clock' = clock
      ]_vars

\* a body without id field and a body with an empty id were both rejected
\* over a table that holds a row
C4_Witness ==
    \E a, b \in DOMAIN reqs :
        /\ reqs[a].kind = "post" /\ reqs[b].kind = "post"
        /\ "id" \notin DOMAIN reqs[a].content
        /\ "id" \in DOMAIN reqs[b].content /\ reqs[b].content.id = ""
        /\ reqs[a].status = 400 /\ reqs[b].status = 400
        /\ rows # {}

\* C5: two upserts for the same id whose statements the backend executed, in
\* whatever order their steps interleaved, are both answered with success;
\* while one of them is the latest write of the id there is exactly one row
\* with the id, and its content is that of the one committed last.
C5_ConcurrentUpserts ==
    \A a, b \in DOMAIN reqs :
        ( /\ a # b
          /\ reqs[a].kind = "post" /\ reqs[b].kind = "post"
          /\ reqs[a].id = reqs[b].id
          /\ reqs[a].pc = "done" /\ reqs[b].pc = "done"
          /\ reqs[a].ok /\ reqs[b].ok )
        => /\ reqs[a].status = 200 /\ reqs[b].status = 200
           /\ reqs[a].ord # reqs[b].ord
           /\ (IsLastWrite(a) \/ IsLastWrite(b))
              => /\ Cardinality(RowsWithId(rows, reqs[a].id)) = 1
                 /\ \A row \in RowsWithId(rows, reqs[a].id) :
                        row.content = IF reqs[a].ord > reqs[b].ord
                                      THEN reqs[a].content
                                      ELSE reqs[b].content

\* the request that arrived first was still suspended when the second one
\* was executed, and its content is the one that stays
C5_Witness ==
    \E a, b \in DOMAIN reqs :
        /\ a < b
        /\ Acked(a) /\ Acked(b)
        /\ reqs[a].id = reqs[b].id
        /\ reqs[a].content # reqs[b].content
        /\ reqs[a].ord > reqs[b].ord /\ reqs[b].ord > 0
        /\ IsLastWrite(a)
        /\ \E row \in rows : row.content = reqs[a].content

\* the request answered last, when it is of the given kind (0 if it is not)
LastOf(kind) ==
    IF reqs # <<>> /\ reqs[Len(reqs)].kind = kind THEN Len(reqs) ELSE 0

\* C6: readStore(s) answers with success and returns the contents of exactly
\* the rows whose store_name is s, each once; the empty sequence when there
\* is none.
C6_ReadMembership ==
    LET k == LastOf("read") IN
    k > 0 =>
        LET out == reqs[k].out
            match == {row \in rows : row.store_name = reqs[k].store}
        IN  /\ reqs[k].status = 200
            /\ Len(out) = Cardinality(match)
            /\ {out[n] : n \in DOMAIN out} = {row.content : row \in match}

\* a read returned the two documents of its store and not the one of the
\* other store
C6_Witness ==
    LET k == LastOf("read") IN
    /\ k > 0
    /\ Len(reqs[k].out) = 2
    /\ \E row \in rows : row.store_name # reqs[k].store

\* C7: of two documents returned by readStore whose last writes were stamped
\* with different times, the one written later comes first.
C7_ReadOrder ==
    LET k == LastOf("read") IN
    k > 0 =>
        \A a, b \in DOMAIN reqs[k].out, ja, jb \in DOMAIN reqs :
            ( /\ Acked(ja) /\ IsLastWrite(ja)
              /\ Acked(jb) /\ IsLastWrite(jb)
              /\ reqs[ja].content = reqs[k].out[a]
              /\ reqs[jb].content = reqs[k].out[b]
              /\ reqs[ja].ord > reqs[jb].ord
              /\ \A ra \in RowsWithId(rows, reqs[ja].id),
                    rb \in RowsWithId(rows, reqs[jb].id) :
                     ra.updated_at # rb.updated_at )
            => a < b

\* a document was written, then another one, then the first one again, at
\* three different times, and the read returns the first one ahead
C7_Witness ==
    /\ Len(reqs) = 4
    /\ LastOf("read") = 4
    /\ Acked(1) /\ Acked(2) /\ Acked(3)
    /\ reqs[1].id = reqs[3].id /\ reqs[1].id # reqs[2].id
    /\ reqs[4].out = <<reqs[3].content, reqs[2].content>>
    /\ \A ra, rb \in rows : ra.updated_at = rb.updated_at => ra = rb
    /\ \A ra \in rows : ra.updated_at > 1

\* C8: a delete of an id that has no row (never written, or removed by the
\* delete committed just before) is answered with success and leaves the
\* table unchanged.
C8_DeleteIdempotent ==
    [][\A k \in DOMAIN reqs :
          ( /\ reqs[k].kind = "delete" /\ Executes(k)
            /\ \/ RowsWithId(rows, reqs[k].id) = {}
               \/ \E j \in DOMAIN reqs :
                     /\ reqs[j].kind = "delete" /\ reqs[j].id = reqs[k].id
                     /\ reqs[j].ord > 0 /\ reqs[j].ord = Committed )
          => rows' = rows /\ reqs'[k].status = 200
      ]_vars

\* the same id was deleted twice in a row, with success, over a table that
\* holds a row in the store named by the deletes
C8_Witness ==
    \E j, k \in DOMAIN reqs :
        /\ reqs[j].kind = "delete" /\ reqs[k].kind = "delete"
        /\ reqs[j].id = reqs[k].id
        /\ reqs[j].status = 200 /\ reqs[k].status = 200
        /\ reqs[j].ord > 0 /\ reqs[k].ord = reqs[j].ord + 1
        /\ reqs[k].ord = Committed
        /\ \E row \in rows : row.store_name = reqs[k].store

\* C9: an executed DELETE /api/:store/:id removes the row with that id
\* whatever its store_name and leaves every other row as it was, and a row's
\* id leaves the table only in such a step.
C9_DeleteById ==
    [][/\ \A k \in DOMAIN reqs :
            (reqs[k].kind = "delete" /\ Executes(k))
            => rows' = {row \in rows : row.id # reqs[k].id}
       /\ \A row \in rows :
            row.id \notin RowIds(rows')
            => \E k \in DOMAIN reqs :
                  /\ reqs[k].kind = "delete" /\ Executes(k)
                  /\ reqs[k].id = row.id
      ]_vars

\* a row written under one store was removed by a delete that names the
\* other store, and the row of another id is still there
C9_Witness ==
    \E j, k \in DOMAIN reqs :
        /\ Acked(j) /\ reqs[k].kind = "delete" /\ reqs[k].status = 200
        /\ reqs[j].id = reqs[k].id
        /\ reqs[j].store # reqs[k].store
        /\ reqs[j].ord > 0 /\ reqs[k].ord = reqs[j].ord + 1
        /\ IsLastWrite(k)
        /\ RowsWithId(rows, reqs[k].id) = {}
        /\ rows # {}

\* what C10 says of the payload data of an export over the table rows
GroupedByStore(data) ==
    /\ DOMAIN data = {row.store_name : row \in rows}
    /\ \A s \in DOMAIN data :
        /\ data[s] # <<>>
        /\ Len(data[s]) = Cardinality({row \in rows : row.store_name = s})
        /\ {data[s][n] : n \in DOMAIN data[s]} =
               {row.content : row \in {r \in rows : r.store_name = s}}
    /\ \A row \in rows :
           LET places == {sn \in (DOMAIN data) \X (1..Cardinality(rows)) :
                             /\ sn[2] \in DOMAIN data[sn[1]]
                             /\ data[sn[1]][sn[2]] = row.content}
           IN  /\ Cardinality(places) = 1
               /\ \A sn \in places : sn[1] = row.store_name

\* C10: for any table, an export is answered with a snapshot whose data has
\* one key per store_name that has a row, each key mapping to the contents of
\* exactly the rows of that store (so to no empty sequence), and in which
\* every row appears exactly once, under its own store.
C10_ExportGrouping ==
    LET k == LastOf("export") IN
    k > 0 => reqs[k].status = 200 /\ GroupedByStore(reqs[k].out.data)

\* the part of C10 that holds: every snapshot that an export does return is
\* grouped as C10 says
C10_GroupingWhenAnswered ==
    LET k == LastOf("export") IN
    (k > 0 /\ reqs[k].status = 200) => GroupedByStore(reqs[k].out.data)

\* an export answered with a snapshot of two rows of one store and one row
\* of another
C10_AnsweredWitness ==
    LET k == LastOf("export") IN
    /\ k > 0
    /\ reqs[k].status = 200
    /\ Cardinality(DOMAIN reqs[k].out.data) = 2
    /\ \E s \in DOMAIN reqs[k].out.data : Len(reqs[k].out.data[s]) = 2

\* the number of document contents in the data of a snapshot
RECURSIVE CountContents(_, _)
CountContents(exported, stores) ==
    IF stores = {} THEN 0
    ELSE LET s == CHOOSE x \in stores : TRUE
         IN  Len(exported[s]) + CountContents(exported, stores \ {s})

\* C11: every export answered with success returns an envelope whose fields
\* are version, timestamp, data and recordCount, recordCount being the
\* number of document contents in data.
C11_SnapshotEnvelope ==
    \A k \in DOMAIN reqs :
        (reqs[k].kind = "export" /\ reqs[k].status = 200)
        => /\ DOMAIN reqs[k].out =
                  {"version", "timestamp", "data", "recordCount"}
           /\ reqs[k].out.recordCount =
                  CountContents(reqs[k].out.data, DOMAIN reqs[k].out.data)

\* C12: an export is answered either with an error that carries no snapshot
\* (always so when its bulk read fails) or with a snapshot whose data is the
\* grouping of the whole table as it is at the instant of its read, which
\* lies between the arrival of the request and its response, whatever
\* upserts and deletes run concurrently: no row of that instant is missing
\* and none of another instant is there.
C12_ExportAllOrNothing ==
    [][\A k \in DOMAIN reqs :
          ( /\ reqs[k].kind = "export"
            /\ reqs[k].pc = "query" /\ reqs'[k].pc = "done" )
          => /\ \/ /\ reqs'[k].status = 500
                   /\ reqs'[k].out = <<>>
                \/ /\ reqs'[k].status = 200
                   /\ GroupedByStore(reqs'[k].out.data)
             /\ (~dbUp \/ ~tableExists) => reqs'[k].status = 500
      ]_vars

\* an export returned a snapshot with the row written before its read and
\* without the row of an upsert that had arrived before the export did and
\* was committed after the read
C12_Witness ==
    \E j, k \in DOMAIN reqs :
        /\ j < k
        /\ Acked(j) /\ IsLastWrite(j)
        /\ reqs[k].kind = "export" /\ reqs[k].status = 200
        /\ reqs[k].out.data # <<>>
        /\ \A s \in DOMAIN reqs[k].out.data :
               \A n \in DOMAIN reqs[k].out.data[s] :
                   reqs[k].out.data[s][n].id # reqs[j].id
        /\ RowsWithId(rows, reqs[j].id) # {}

\* the id-to-content mapping of what readStore(s) returns over a table
ReadMap(rs, s) ==
    UNION {{<<out[n].id, out[n]>> : n \in DOMAIN out} :
              out \in ReadResults(rs, s)}

\* C13: for any table, when a client exports it and replays what the export
\* returned into an empty backend, readStore of every store gives the same
\* id-to-content mapping on the restored backend as on the source.
C13_RoundTrip ==
    LET n == Len(reqs) IN
    (n >= 2 /\ reqs[n].kind = "restore" /\ reqs[n - 1].kind = "export")
    => \A s \in SeqStores : ReadMap(fresh, s) = ReadMap(rows, s)

\* the part of C13 that holds: the round trip of every snapshot that an
\* export does return
C13_RoundTripWhenAnswered ==
    LET n == Len(reqs) IN
    ( /\ n >= 2 /\ reqs[n].kind = "restore" /\ reqs[n - 1].kind = "export"
      /\ reqs[n - 1].status = 200 )
    => \A s \in SeqStores : ReadMap(fresh, s) = ReadMap(rows, s)

\* a table of two documents in two stores was exported and restored
C13_AnsweredWitness ==
    LET n == Len(reqs) IN
    /\ n >= 2 /\ reqs[n].kind = "restore" /\ reqs[n - 1].kind = "export"
    /\ reqs[n - 1].status = 200
    /\ Cardinality(fresh) = 2
    /\ Cardinality({row.store_name : row \in fresh}) = 2

\* the ids of the documents of a snapshot's data
ExportedIds(exported) ==
    UNION {{exported[s][m].id : m \in DOMAIN exported[s]} :
              s \in DOMAIN exported}

\* C14: a replay of a snapshot into the table, whatever the table holds,
\* leaves every row whose id is not in the snapshot as it was, and a replay
\* that directly follows a replay of the same snapshot leaves every id with
\* the store and the content it had.
C14_ImportMerge ==
    [][LET n == Len(reqs') IN
       (n > Len(reqs) /\ reqs'[n].kind = "import")
       => /\ \A row \in rows :
                 row.id \notin ExportedIds(reqs'[n].content)
                 => row \in rows'
          /\ ( /\ n >= 2 /\ reqs[n - 1].kind = "import"
                /\ reqs[n - 1].content = reqs'[n].content )
             => {Strip(r) : r \in rows'} = {Strip(r) : r \in rows}
      ]_vars

\* a snapshot was replayed twice in a row into a table that had changed
\* since the export; the table holds a document the snapshot does not have
\* and the documents of the snapshot
C14_Witness ==
    LET n == Len(reqs) IN
    /\ n >= 4
    /\ reqs[n].kind = "import" /\ reqs[n - 1].kind = "import"
    /\ reqs[n].content = reqs[n - 1].content
    /\ reqs[n].content # <<>>
    /\ \E row \in rows : row.id \notin ExportedIds(reqs[n].content)
    /\ \E row \in rows : row.id \in ExportedIds(reqs[n].content)

\* a health request is answered in this step
HealthAnswered(k) ==
    /\ reqs'[k].kind = "health"
    /\ reqs'[k].pc = "done"
    /\ k \in DOMAIN reqs => reqs[k].pc # "done"

\* C15: GET /api/health is answered ok only after a query against a backend
\* that is reachable, is answered 503 whenever the backend is unreachable,
\* and leaves the table unchanged.
C15_HealthCheck ==
    [][\A k \in DOMAIN reqs' :
          HealthAnswered(k)
          => /\ reqs'[k].status = 200
                  => dbUp /\ k \in DOMAIN reqs /\ reqs[k].pc = "query"
             /\ ~dbUp => reqs'[k].status = 503
             /\ rows' = rows
      ]_vars

\* the part of C15 that holds: the health check of server.js
C15_HealthCheckServerJs ==
    [][\A k \in DOMAIN reqs' :
          (HealthAnswered(k) /\ variant = "server.js")
          => /\ reqs'[k].status = 200
                  => dbUp /\ k \in DOMAIN reqs /\ reqs[k].pc = "query"
             /\ ~dbUp => reqs'[k].status = 503
             /\ rows' = rows
      ]_vars

\* server.js answered one health check ok and one 503 over a table that
\* holds a row
C15_ServerJsWitness ==
    /\ variant = "server.js"
    /\ rows # {}
    /\ \E a, b \in DOMAIN reqs :
           /\ reqs[a].kind = "health" /\ reqs[a].status = 200
           /\ reqs[b].kind = "health" /\ reqs[b].status = 503

\* the awaited query of request k settles in this step
Settles(k) == reqs[k].pc = "query" /\ reqs'[k].pc = "done"

\* C16: an export whose query reaches a backend that is up while the table
\* is missing is answered with a snapshot of empty data and leaves the
\* table created; an export over an existing table changes nothing.
C16_ExportEnsuresSchema ==
    [][\A k \in DOMAIN reqs :
          (reqs[k].kind = "export" /\ Settles(k) /\ dbUp)
          => IF tableExists
             THEN rows' = rows /\ tableExists'
             ELSE /\ reqs'[k].status = 200
                  /\ reqs'[k].out.data = <<>>
                  /\ tableExists'
      ]_vars

\* C17: after a startup whose initDb failed, the server answers: a read or
\* an upsert whose query settles while the backend is unreachable gets a
\* 5xx, and one whose query settles while the backend is reachable gets 200.
C17_DegradedStart ==
    [][\A k \in DOMAIN reqs :
          ( /\ boot = "error"
            /\ reqs[k].kind \in {"read", "post"}
            /\ Settles(k) )
          => IF dbUp THEN reqs'[k].status = 200
             ELSE reqs'[k].status \in 500..599
      ]_vars

\* the part of C17 that holds: the same when the table exists, created by an
\* earlier run of the server
C17_DegradedStartWithTable ==
    [][\A k \in DOMAIN reqs :
          ( /\ boot = "error" /\ tableExists
            /\ reqs[k].kind \in {"read", "post"}
            /\ Settles(k) )
          => IF dbUp THEN reqs'[k].status = 200
             ELSE reqs'[k].status \in 500..599
      ]_vars

\* after a failed startup over an existing table an upsert was answered 500
\* and, the backend being back, a later one 200
C17_WithTableWitness ==
    /\ boot = "error"
    /\ \E a, b \in DOMAIN reqs :
           /\ a < b
           /\ reqs[a].kind = "post" /\ reqs[a].status = 500
           /\ reqs[b].kind = "post" /\ reqs[b].status = 200

\* C18: a read, upsert, delete or export whose query fails is answered with
\* a 5xx that carries no payload, and leaves the table unchanged; an upsert
\* is answered with success only in a step after which its row is in the
\* table, a delete only in a step after which its id is not, and an upsert
\* or delete that is not answered with success leaves the table unchanged.
C18_FailuresNotMasked ==
    [][\A k \in DOMAIN reqs :
          ( /\ reqs[k].kind \in {"read", "post", "delete", "export"}
            /\ Settles(k) )
          => /\ (~dbUp \/ ~tableExists)
                  => /\ reqs'[k].status \in 500..599
                     /\ reqs'[k].out = <<>>
                     /\ rows' = rows
             /\ (reqs[k].kind = "post" /\ reqs'[k].status = 200)
                  => \E row \in rows' :
                         /\ row.id = reqs[k].id
                         /\ row.content = reqs[k].content
             /\ (reqs[k].kind = "delete" /\ reqs'[k].status = 200)
                  => RowsWithId(rows', reqs[k].id) = {}
             /\ ( /\ reqs[k].kind \in {"post", "delete"}
                   /\ reqs'[k].status # 200 )
                  => rows' = rows
      ]_vars

\* an upsert was answered 500 and left no row, a read was answered 500, and
\* the same upsert was then answered 200 with its row in the table
C18_Witness ==
    \E a, b, c \in DOMAIN reqs :
        /\ a < c
        /\ reqs[a].kind = "post" /\ reqs[a].status = 500
        /\ reqs[b].kind = "read" /\ reqs[b].status = 500
        /\ Acked(c) /\ reqs[c].content = reqs[a].content
        /\ Committed = 1
        /\ \E row \in rows : row.content = reqs[c].content

\* request k waits for a connection of the pool
Waiting(k) == k \in DOMAIN reqs /\ reqs[k].pc = "wait"

\* C19: no request waits on the pool forever: a request that waits for a
\* connection is in the end given one or answered with an error, also when
\* every connection of the pool stays out.
C19_NoHangOnPool ==
    \A k \in 1..MaxReqs : [](Waiting(k) => <>~Waiting(k))

\* the part of C19 that holds: the pool of server.js, with its connection
\* timeout, and the pool never has more than max connections out
C19_NoHangOnPoolServerJs ==
    \A k \in 1..MaxReqs :
        []((Waiting(k) /\ variant = "server.js") => <>~Waiting(k))

C19_PoolBounded == InUse <= PoolMax

\* on server.js a request was answered 500 while as many statements as the
\* pool has connections were still at the backend
C19_ServerJsWitness ==
    /\ variant = "server.js"
    /\ InUse = PoolMax
    /\ \E k \in DOMAIN reqs : reqs[k].pc = "done" /\ reqs[k].status = 500

\* C20: a read of store s returns the document of every acknowledged upsert
\* into s that is the latest write of its id, and no document with the id of
\* an acknowledged upsert into another store that is the latest write of
\* its id, whatever the table held before that upsert.
C20_ReadYourWrites ==
    LET k == LastOf("read") IN
    k > 0 =>
        \A j \in DOMAIN reqs :
            (Acked(j) /\ IsLastWrite(j))
            => IF reqs[j].store = reqs[k].store
               THEN \E n \in DOMAIN reqs[k].out :
                        reqs[k].out[n] = reqs[j].content
               ELSE \A n \in DOMAIN reqs[k].out :
                        reqs[k].out[n].id # reqs[j].id
====
